---- MODULE Spec2Model ----
(***************************************************************************)
(* Model of arrayfile.Array (src/src/arrayfile/array.py): a persistent,   *)
(* memory-mapped, fixed-element-type growable array.                      *)
(*                                                                         *)
(* The backing file is modelled as its size in bytes (fsize), the bytes   *)
(* of its header region (fhead, the first min(fsize, 32) bytes) and its   *)
(* element slots (fdata).  Every access of the data region is made at     *)
(* offset 32 + i * element_size with width element_size, so the data      *)
(* region is kept slot by slot.  The element formats of the model are one *)
(* signed byte plus pad bytes; struct.pack writes pad bytes as zero, so a *)
(* slot is represented by its value byte.  fdata holds the slots up to    *)
(* the highest one ever written; the slots after it, up to the end of the *)
(* file, are zero (the file is extended sparsely).                        *)
(* The mapping is shared with the file, so a write through the mapping is *)
(* a write of the file's slot.                                            *)
(***************************************************************************)
EXTENDS Integers, Sequences, FiniteSets, TLC

(***************************************************************************)
(* Program constants (class Array).                                        *)
(***************************************************************************)
CHUNK_SIZE_BYTES == 4096
HEADER_SIZE == 32
HEADER_VERSION == 1
\* b"ARYF"
MAGIC == <<65, 82, 89, 70>>
\* width of the dtype slot of HEADER_FORMAT ("8s")
DTYPE_SLOT == 8

(***************************************************************************)
(* Bounds of the model.                                                    *)
(***************************************************************************)
\* operations that would make the array longer than MaxLen are not taken
MaxLen == 3
\* longest batch given to extend
MaxExtend == 2
\* largest repeat count given to __imul__
MaxRepeat == 3
\* largest initial_elements hint given to the constructor
MaxHint == 3
\* initial_elements hints given to the constructor
Hints == {0, MaxHint}

(***************************************************************************)
(* Element formats, as sequences of ASCII codes.                           *)
(*   "b"           one signed byte, element size 1                         *)
(*   "<b2999x"     one signed byte and 2999 pad bytes, element size 3000:  *)
(*                 1, 2, 4, 5 elements fit in 1, 2, 3, 4 chunks            *)
(*   "<b8x8x8x1x"  one signed byte and 25 pad bytes, element size 26; ten *)
(*                 characters, more than the 8-byte dtype slot of the     *)
(*                 header                                                  *)
(***************************************************************************)
DT_b == <<98>>
DT_b2999x == <<60, 98, 50, 57, 57, 57, 120>>
DT_long == <<60, 98, 56, 120, 56, 120, 56, 120>> \o <<49, 120>>
DTypes == {DT_b, DT_b2999x, DT_long}

\* values given to append, extend and __setitem__; 128 does not fit "b"
GoodValues == {-1, 1}
BadValues == {128}
Values == GoodValues \cup BadValues

Min(a, b) == IF a < b THEN a ELSE b
Max(a, b) == IF a > b THEN a ELSE b

Zeros(n) == [i \in 1..n |-> 0]

(***************************************************************************)
(* struct: little-endian integers, calcsize, pack and unpack of an        *)
(* element.                                                                *)
(***************************************************************************)
RECURSIVE PackLE(_, _)
\* struct.pack of an unsigned integer n in w little-endian bytes
PackLE(n, w) ==
    IF w = 0 THEN <<>> ELSE <<n % 256>> \o PackLE(n \div 256, w - 1)

RECURSIVE UnpackLE(_)
\* struct.unpack of unsigned little-endian bytes
UnpackLE(bs) ==
    IF Len(bs) = 0 THEN 0 ELSE Head(bs) + 256 * UnpackLE(Tail(bs))

IsDigit(c) == c >= 48 /\ c <= 57

RECURSIVE CalcItems(_, _, _)
\* size of the items of a struct format: an optional repeat count, then a
\* format character of one byte ("b" signed byte, "x" pad byte)
CalcItems(fmt, count, hascount) ==
    IF Len(fmt) = 0 THEN 0
    ELSE IF IsDigit(Head(fmt))
         THEN CalcItems(Tail(fmt), count * 10 + (Head(fmt) - 48), TRUE)
         ELSE (IF hascount THEN count ELSE 1) + CalcItems(Tail(fmt), 0, FALSE)

\* struct.calcsize(dtype): "<" selects the standard sizes without alignment
calcsize(fmt) ==
    IF Len(fmt) > 0 /\ Head(fmt) = 60
    THEN CalcItems(Tail(fmt), 0, FALSE)
    ELSE CalcItems(fmt, 0, FALSE)

\* whether struct.pack(dtype, value) succeeds for the formats above ("byte
\* format requires -128 <= number <= 127"); _pack_value raises TypeError
\* when it does not
can_pack(value) == value >= -128 /\ value <= 127

\* _pack_value(value) for the formats above: the value byte, in two's
\* complement
pack_value(value) == value % 256

\* struct.unpack(dtype, data)[0] for the formats above
unpack_value(byte) == IF byte >= 128 THEN byte - 256 ELSE byte

(***************************************************************************)
(* State.  The fields of the Array instance, the backing file, and what   *)
(* the last call did.                                                      *)
(***************************************************************************)
VARIABLES
    dtype,           \* self._dtype (= self._dtype_format)
    element_size,    \* self._element_size
    file,            \* self._file is not None (the handle is open)
    mmap,            \* self._mmap: 0 when None, -1 when the mapping object
                     \* is closed, else the length of the mapping
    len,             \* self._len
    capacity,        \* self._capacity
    capacity_bytes,  \* self._capacity_bytes
    fsize,           \* the backing file: its size in bytes
    fhead,           \* the backing file: the bytes of [0, min(fsize, 32))
    fdata,           \* the backing file: value bytes of the element slots
    constructed,     \* an instance exists (the last constructor call returned)
    op,              \* the last call: [name, arg]
    err,             \* what the last call raised ("none" when it returned)
    ret,             \* what the last call returned
    remaps,          \* the number of mmap.mmap calls the last call made
    was_open,        \* the handle was open when the last call began
    appended,        \* the values appended since creation, in order
    appends_only,    \* nothing but successful appends, close and reopening
                     \* with the same dtype has been called since creation
    lock,            \* self._lock: 0 when free, else the thread that holds it
    pc,              \* per thread: where the thread is in its call
    call,            \* per thread: the call in progress and its locals
    owner,           \* the owner holds a reference to the instance
    finalizer,       \* the weakref.finalize entry of the instance is alive
    exited           \* the interpreter has run its exit handlers

vars == <<dtype, element_size, file, mmap, len, capacity, capacity_bytes,
          fsize, fhead, fdata, constructed, op, err, ret, remaps,
          was_open, appended, appends_only, lock, pc, call, owner,
          finalizer, exited>>

\* threads, the lock and the calls in progress
tvars == <<lock, pc, call>>

\* references to the instance and the interpreter's exit
gvars == <<owner, finalizer, exited>>

\* the instance and its file as one record
Self ==
    [dtype |-> dtype, element_size |-> element_size, file |-> file,
     mmap |-> mmap, len |-> len, capacity |-> capacity,
     capacity_bytes |-> capacity_bytes,
     fsize |-> fsize, fhead |-> fhead, fdata |-> fdata]

\* the result of a call: the state it leaves, what it raised, what it
\* returned, and the number of mmap.mmap calls it made
Result(s, e, r, m) == [s |-> s, err |-> e, ret |-> r, remaps |-> m]

(***************************************************************************)
(* The backing file.                                                       *)
(***************************************************************************)
\* the number of element slots of width es wholly inside a file of size n
SlotsIn(n, es) == IF n < HEADER_SIZE THEN 0 ELSE (n - HEADER_SIZE) \div es

\* file.truncate(size): cut, or extend with zero bytes
ftruncate(self, size) ==
    LET hl == Min(size, HEADER_SIZE)
        keep == Min(Len(self.fdata), SlotsIn(size, self.element_size))
    IN [self EXCEPT
          !.fsize = size,
          !.fhead = IF hl <= Len(self.fhead)
                    THEN SubSeq(self.fhead, 1, hl)
                    ELSE self.fhead \o Zeros(hl - Len(self.fhead)),
          !.fdata = SubSeq(self.fdata, 1, keep)]

\* self._mmap[offset : offset + element_size] for the slot of index i,
\* which lies inside the mapping: the slot's value byte
mmap_read(self, i) == IF i < Len(self.fdata) THEN self.fdata[i + 1] ELSE 0

\* self._mmap[offset : offset + element_size] = packed for the slot of index
\* i, which lies inside the mapping
mmap_write(self, i, byte) ==
    [self EXCEPT !.fdata =
        IF i < Len(self.fdata)
        THEN [self.fdata EXCEPT ![i + 1] = byte]
        ELSE self.fdata \o Zeros(i - Len(self.fdata)) \o <<byte>>]

\* whether the slot of index i lies inside the mapping
in_mmap(self, i) == HEADER_SIZE + (i + 1) * self.element_size <= self.mmap

(***************************************************************************)
(* Header codec.                                                           *)
(***************************************************************************)
\* struct.pack(HEADER_FORMAT, MAGIC, HEADER_VERSION, len(dtype), dtype_bytes,
\* element_size, len) with dtype_bytes = dtype[:8].ljust(8, b"\x00")
header_bytes(self) ==
    LET cut == SubSeq(self.dtype, 1, Min(Len(self.dtype), DTYPE_SLOT))
        dtype_bytes == cut \o Zeros(DTYPE_SLOT - Len(cut))
    IN MAGIC \o PackLE(HEADER_VERSION, 2) \o PackLE(Len(self.dtype), 1)
         \o dtype_bytes \o PackLE(self.element_size, 4)
         \o PackLE(self.len, 8) \o Zeros(5)

\* _write_header: seek(0), write the 32 header bytes, flush
write_header(self) ==
    [self EXCEPT !.fhead = header_bytes(self),
                 !.fsize = Max(self.fsize, HEADER_SIZE)]

\* the fields struct.unpack(HEADER_FORMAT, header_data) gives
hdr_magic(h) == SubSeq(h, 1, 4)
hdr_version(h) == UnpackLE(SubSeq(h, 5, 6))
hdr_dtype_len(h) == h[7]
hdr_dtype_bytes(h) == SubSeq(h, 8, 15)
hdr_element_size(h) == UnpackLE(SubSeq(h, 16, 19))
hdr_length(h) == UnpackLE(SubSeq(h, 20, 27))

\* dtype_bytes[:dtype_len]
stored_dtype(h) ==
    SubSeq(hdr_dtype_bytes(h), 1, Min(hdr_dtype_len(h), DTYPE_SLOT))

\* whether bytes.decode("ascii") succeeds
is_ascii(bs) == \A i \in 1..Len(bs) : bs[i] < 128

\* read_header with the dtype compared before the version is checked
read_header_dtype_first(self) ==
    LET h == self.fhead IN
    IF Len(h) < HEADER_SIZE THEN Result(self, "none", <<FALSE>>, 0)
    ELSE IF hdr_magic(h) # MAGIC THEN Result(self, "none", <<FALSE>>, 0)
    ELSE IF ~is_ascii(stored_dtype(h))
         THEN Result(self, "UnicodeDecodeError", <<>>, 0)
    ELSE IF stored_dtype(h) # self.dtype
         THEN Result(self, "ValueError: File dtype does not match", <<>>, 0)
    ELSE IF hdr_version(h) # HEADER_VERSION
         THEN Result(self, "ValueError: Unsupported header version", <<>>, 0)
    ELSE IF hdr_element_size(h) # self.element_size
         THEN Result(self, "ValueError: File element size does not match",
                     <<>>, 0)
    ELSE Result([self EXCEPT !.len = hdr_length(h)], "none", <<TRUE>>, 0)

\* _read_header: [s, err, ret]; ret is <<TRUE>> for a valid header and
\* <<FALSE>> for no header
read_header(self) ==
    LET h == self.fhead IN
    IF Len(h) < HEADER_SIZE THEN Result(self, "none", <<FALSE>>, 0)
    ELSE IF hdr_magic(h) # MAGIC THEN Result(self, "none", <<FALSE>>, 0)
    ELSE IF hdr_version(h) # HEADER_VERSION
         THEN Result(self, "ValueError: Unsupported header version", <<>>, 0)
    ELSE IF ~is_ascii(stored_dtype(h))
         THEN Result(self, "UnicodeDecodeError", <<>>, 0)
    ELSE IF stored_dtype(h) # self.dtype
         THEN Result(self, "ValueError: File dtype does not match", <<>>, 0)
    ELSE IF hdr_element_size(h) # self.element_size
         THEN Result(self, "ValueError: File element size does not match",
                     <<>>, 0)
    ELSE Result([self EXCEPT !.len = hdr_length(h)], "none", <<TRUE>>, 0)

(***************************************************************************)
(* Capacity manager and mapping.                                           *)
(***************************************************************************)
\* total_file_size without the rounding up to whole chunks
total_file_size_exact(min_elements, es) == min_elements * es + HEADER_SIZE

\* total_file_size of _allocate_capacity
total_file_size(min_elements, es) ==
    LET bytes_needed == min_elements * es + HEADER_SIZE
        chunks_needed ==
            (bytes_needed + CHUNK_SIZE_BYTES - 1) \div CHUNK_SIZE_BYTES
    IN chunks_needed * CHUNK_SIZE_BYTES

\* _allocate_capacity that counts the header's bytes as element space
allocate_capacity_no_header(self, min_elements) ==
    LET total == total_file_size(min_elements, self.element_size)
        s1 == [self EXCEPT
                 !.capacity_bytes = total,
                 !.capacity = total \div self.element_size]
    IN IF ~self.file THEN Result(s1, "AttributeError", <<>>, 0)
       ELSE Result(ftruncate(s1, total), "none", <<>>, 0)

\* _allocate_capacity(min_elements): the capacity fields are assigned before
\* self._file.truncate, which raises AttributeError when self._file is None
allocate_capacity(self, min_elements) ==
    LET total == total_file_size(min_elements, self.element_size)
        s1 == [self EXCEPT
                 !.capacity_bytes = total - HEADER_SIZE,
                 !.capacity = (total - HEADER_SIZE) \div self.element_size]
    IN IF ~self.file THEN Result(s1, "AttributeError", <<>>, 0)
       ELSE Result(ftruncate(s1, total), "none", <<>>, 0)

\* _resize(min_new_len): close the mapping, allocate, map the whole file.
\* (self._mmap set and self._file None together is not reachable in
\* sequential use: close clears both.)
resize(self, min_new_len) ==
    LET a == allocate_capacity(self, min_new_len) IN
    IF a.err # "none" THEN a
    ELSE Result([a.s EXCEPT !.mmap = a.s.fsize], "none", <<>>, 1)

(***************************************************************************)
(* Element accessor and public operations.                                 *)
(***************************************************************************)
\* norm_index with a negative index counted from one past the end
norm_index_from_end(self, index) ==
    IF index < 0 THEN self.len + index + 1 ELSE index

\* _validate_index: the normalized index (negative indices count from the
\* end) and whether it is in range (IndexError when it is not)
norm_index(self, index) == IF index < 0 THEN self.len + index ELSE index

valid_index(self, index) ==
    0 <= norm_index(self, index) /\ norm_index(self, index) < self.len

\* __getitem__ that tests the mapping before it validates the index
getitem_mmap_first(self, index) ==
    LET i == norm_index(self, index) IN
    IF self.mmap = 0
    THEN Result(self, "RuntimeError: Array is not memory-mapped", <<>>, 0)
    ELSE IF ~valid_index(self, index)
    THEN Result(self, "IndexError: Index out of bounds", <<>>, 0)
    ELSE IF ~in_mmap(self, i)
    THEN Result(self, "struct.error", <<>>, 0)
    ELSE Result(self, "none", <<unpack_value(mmap_read(self, i))>>, 0)

\* __getitem__(index)
getitem(self, index) ==
    LET i == norm_index(self, index) IN
    IF ~valid_index(self, index)
    THEN Result(self, "IndexError: Index out of bounds", <<>>, 0)
    ELSE IF self.mmap = 0
    THEN Result(self, "RuntimeError: Array is not memory-mapped", <<>>, 0)
    ELSE IF ~in_mmap(self, i)
    THEN Result(self, "struct.error", <<>>, 0)
    ELSE Result(self, "none", <<unpack_value(mmap_read(self, i))>>, 0)

\* __setitem__ that writes the slot of the index's absolute value
setitem_abs_index(self, index, value) ==
    LET i == IF index < 0 THEN 0 - index ELSE index IN
    IF ~valid_index(self, index)
    THEN Result(self, "IndexError: Index out of bounds", <<>>, 0)
    ELSE IF self.mmap = 0
    THEN Result(self, "RuntimeError: Array is not memory-mapped", <<>>, 0)
    ELSE IF ~can_pack(value)
    THEN Result(self, "TypeError: cannot be packed", <<>>, 0)
    ELSE IF ~in_mmap(self, i)
    THEN Result(self, "IndexError: mmap slice assignment", <<>>, 0)
    ELSE Result(mmap_write(self, i, pack_value(value)), "none", <<>>, 0)

\* __setitem__(index, value)
setitem(self, index, value) ==
    LET i == norm_index(self, index) IN
    IF ~valid_index(self, index)
    THEN Result(self, "IndexError: Index out of bounds", <<>>, 0)
    ELSE IF self.mmap = 0
    THEN Result(self, "RuntimeError: Array is not memory-mapped", <<>>, 0)
    ELSE IF ~can_pack(value)
    THEN Result(self, "TypeError: cannot be packed", <<>>, 0)
    ELSE IF ~in_mmap(self, i)
    THEN Result(self, "IndexError: mmap slice assignment", <<>>, 0)
    ELSE Result(mmap_write(self, i, pack_value(value)), "none", <<>>, 0)

\* append after the test of the capacity: the value is packed and written at
\* the slot of index self._len, and self._len incremented
append_write(self, value) ==
    IF ~can_pack(value)
    THEN Result(self, "TypeError: cannot be packed", <<>>, 0)
    ELSE IF self.mmap = 0
    THEN Result(self, "TypeError: NoneType", <<>>, 0)
    ELSE IF ~in_mmap(self, self.len)
    THEN Result(self, "IndexError: mmap slice assignment", <<>>, 0)
    ELSE Result([mmap_write(self, self.len, pack_value(value))
                    EXCEPT !.len = self.len + 1],
                "none", <<>>, 0)

\* append without the growth of a full array
append_no_resize(self, value) ==
    IF ~can_pack(value)
    THEN Result(self, "TypeError: cannot be packed", <<>>, 0)
    ELSE IF self.mmap = 0
    THEN Result(self, "TypeError: NoneType", <<>>, 0)
    ELSE IF ~in_mmap(self, self.len)
    THEN Result(self, "IndexError: mmap slice assignment", <<>>, 0)
    ELSE Result([mmap_write(self, self.len, pack_value(value))
                    EXCEPT !.len = self.len + 1],
                "none", <<>>, 0)

\* append(value)
append(self, value) ==
    LET r == IF self.len = self.capacity
             THEN resize(self, self.len + 1)
             ELSE Result(self, "none", <<>>, 0)
        s == r.s
    IN IF r.err # "none" THEN r
       ELSE IF ~can_pack(value)
       THEN Result(s, "TypeError: cannot be packed", <<>>, r.remaps)
       ELSE IF s.mmap = 0
       THEN Result(s, "TypeError: NoneType", <<>>, r.remaps)
       ELSE IF ~in_mmap(s, s.len)
       THEN Result(s, "IndexError: mmap slice assignment", <<>>, r.remaps)
       ELSE Result([mmap_write(s, s.len, pack_value(value))
                       EXCEPT !.len = s.len + 1],
                   "none", <<>>, r.remaps)

RECURSIVE extend_write(_, _, _, _)
\* the write loop of extend: values[k..] are packed and written one by one
\* at the slots after self.len + k - 1; the first failure ends the loop and
\* leaves what was written
extend_write(s, values, k, m) ==
    IF k > Len(values)
    THEN Result([s EXCEPT !.len = s.len + Len(values)], "none", <<>>, m)
    ELSE IF ~can_pack(values[k])
    THEN Result(s, "TypeError: cannot be packed", <<>>, m)
    ELSE IF s.mmap = 0
    THEN Result(s, "TypeError: NoneType", <<>>, m)
    ELSE IF ~in_mmap(s, s.len + k - 1)
    THEN Result(s, "IndexError: mmap slice assignment", <<>>, m)
    ELSE extend_write(mmap_write(s, s.len + k - 1, pack_value(values[k])),
                      values, k + 1, m)

\* extend that grows for one more element, as append does, instead of for
\* the whole batch
extend_resize_one(self, values) ==
    IF Len(values) = 0 THEN Result(self, "none", <<>>, 0)
    ELSE LET new_len == self.len + Len(values)
             r == IF new_len > self.capacity
                  THEN resize(self, self.len + 1)
                  ELSE Result(self, "none", <<>>, 0)
         IN IF r.err # "none" THEN r
            ELSE extend_write(r.s, values, 1, r.remaps)

\* extend that sets self._len to the new length before the write loop
extend_len_first(self, values) ==
    IF Len(values) = 0 THEN Result(self, "none", <<>>, 0)
    ELSE LET new_len == self.len + Len(values)
             r == IF new_len > self.capacity
                  THEN resize(self, new_len)
                  ELSE Result(self, "none", <<>>, 0)
             w == extend_write(r.s, values, 1, r.remaps)
         IN IF r.err # "none" THEN r
            ELSE [w EXCEPT !.s.len = new_len]

\* extend(iterable)
extend(self, values) ==
    IF Len(values) = 0 THEN Result(self, "none", <<>>, 0)
    ELSE LET new_len == self.len + Len(values)
             r == IF new_len > self.capacity
                  THEN resize(self, new_len)
                  ELSE Result(self, "none", <<>>, 0)
         IN IF r.err # "none" THEN r
            ELSE extend_write(r.s, values, 1, r.remaps)

\* one pass of the copy loop of __imul__: the block of original_len slots at
\* the start of the data is copied to the slots starting at dst
copy_block(s, original_len, dst) ==
    LET n == Max(Len(s.fdata), dst + original_len) IN
    [s EXCEPT !.fdata =
        [j \in 1..n |->
            IF j - 1 >= dst /\ j - 1 < dst + original_len
            THEN mmap_read(s, j - 1 - dst)
            ELSE mmap_read(s, j - 1)]]

RECURSIVE imul_copy(_, _, _, _, _)
\* the copy loop of __imul__: value - 1 passes
imul_copy(s, original_len, value, pass, m) ==
    IF pass > value - 1
    THEN Result([s EXCEPT !.len = original_len * value], "none", <<>>, m)
    ELSE IF s.mmap = 0
    THEN Result(s, "TypeError: NoneType", <<>>, m)
    ELSE IF HEADER_SIZE + (pass + 1) * original_len * s.element_size > s.mmap
    THEN Result(s, "IndexError: mmap slice assignment", <<>>, m)
    ELSE imul_copy(IF original_len = 0 THEN s
                   ELSE copy_block(s, original_len, pass * original_len),
                   original_len, value, pass + 1, m)

\* the value == 0 branch without the reset of the length
imul_clear_keeps_len(self) ==
    LET s1 == [self EXCEPT !.mmap = 0]
        s2 == IF s1.file THEN ftruncate(s1, 0) ELSE s1
    IN [s2 EXCEPT !.capacity = 0, !.capacity_bytes = 0]

\* the value == 0 branch with the file truncated to the header
imul_clear_to_header(self) ==
    LET s1 == [self EXCEPT !.len = 0, !.mmap = 0]
        s2 == IF s1.file THEN ftruncate(s1, HEADER_SIZE) ELSE s1
    IN [s2 EXCEPT !.capacity = 0, !.capacity_bytes = 0]

\* the value == 0 branch of __imul__
imul_clear(self) ==
    LET s1 == [self EXCEPT !.len = 0, !.mmap = 0]
        s2 == IF s1.file THEN ftruncate(s1, 0) ELSE s1
    IN [s2 EXCEPT !.capacity = 0, !.capacity_bytes = 0]

\* __imul__(value) for an integer value; ret <<0>> stands for NotImplemented
\* and <<1>> for self
imul(self, value) ==
    IF value < 0 THEN Result(self, "none", <<0>>, 0)
    ELSE IF value = 0 THEN Result(imul_clear(self), "none", <<1>>, 0)
    ELSE IF value = 1 THEN Result(self, "none", <<1>>, 0)
    ELSE LET new_total_len == self.len * value
             r == IF new_total_len > self.capacity
                  THEN resize(self, new_total_len)
                  ELSE Result(self, "none", <<>>, 0)
         IN IF r.err # "none" THEN r
            ELSE LET c == imul_copy(r.s, self.len, value, 1, r.remaps)
                 IN IF c.err = "none" THEN [c EXCEPT !.ret = <<1>>] ELSE c

\* flush that also rewrites the header of an open file
flush_writes_header(self) ==
    Result(IF self.file THEN write_header(self) ELSE self, "none", <<>>, 0)

\* flush(): self._mmap.flush() when mapped; the file's content, as the
\* process reads it, does not change
flush(self) == Result(self, "none", <<>>, 0)

\* close without the truncation to the data's size
close_no_truncate(self) ==
    LET s1 == [self EXCEPT !.mmap = 0]
        s2 == write_header(s1)
    IN IF ~self.file THEN Result(s1, "none", <<>>, 0)
       ELSE Result([s2 EXCEPT !.file = FALSE], "none", <<>>, 0)

\* close without the test of self._file: self._write_header() raises
\* AttributeError on a closed container
close_unguarded(self) ==
    LET s1 == [self EXCEPT !.mmap = 0]
        actual_total_size == HEADER_SIZE + self.len * self.element_size
        s2 == write_header(s1)
        s3 == IF s2.fsize > actual_total_size
              THEN ftruncate(s2, actual_total_size) ELSE s2
    IN IF ~self.file THEN Result(s1, "AttributeError", <<>>, 0)
       ELSE Result([s3 EXCEPT !.file = FALSE], "none", <<>>, 0)

\* close that leaves self._mmap as it was
close_keeps_mapping(self) ==
    LET actual_total_size == HEADER_SIZE + self.len * self.element_size
        s2 == write_header(self)
        s3 == IF s2.fsize > actual_total_size
              THEN ftruncate(s2, actual_total_size) ELSE s2
    IN IF ~self.file THEN Result(self, "none", <<>>, 0)
       ELSE Result([s3 EXCEPT !.file = FALSE], "none", <<>>, 0)

\* close that also cuts the capacity fields down to the length
close_shrinks_capacity(self) ==
    LET s1 == [self EXCEPT !.mmap = 0]
        actual_total_size == HEADER_SIZE + self.len * self.element_size
        s2 == write_header(s1)
        s3 == IF s2.fsize > actual_total_size
              THEN ftruncate(s2, actual_total_size) ELSE s2
    IN IF ~self.file THEN Result(s1, "none", <<>>, 0)
       ELSE Result([s3 EXCEPT !.file = FALSE, !.capacity = self.len,
                              !.capacity_bytes = self.len * self.element_size],
                   "none", <<>>, 0)

\* close()
close(self) ==
    LET s1 == [self EXCEPT !.mmap = 0]
        actual_total_size == HEADER_SIZE + self.len * self.element_size
        s2 == write_header(s1)
        s3 == IF s2.fsize > actual_total_size
              THEN ftruncate(s2, actual_total_size) ELSE s2
    IN IF ~self.file THEN Result(s1, "none", <<>>, 0)
       ELSE Result([s3 EXCEPT !.file = FALSE], "none", <<>>, 0)

\* the mapping step that ends __init__
init_mmap(r) ==
    IF r.err # "none" THEN r
    ELSE IF r.s.capacity_bytes > 0
    THEN Result([r.s EXCEPT !.mmap = r.s.fsize], "none", <<>>, 1)
    ELSE r

\* the fields __init__ assigns before it opens the file f
init_fields(dt, f) ==
    [dtype |-> dt, element_size |-> calcsize(dt), file |-> FALSE, mmap |-> 0,
     len |-> 0, capacity |-> 0, capacity_bytes |-> 0,
     fsize |-> f.fsize, fhead |-> f.fhead, fdata |-> f.fdata]

\* __init__(dtype, filename, "w+b", initial_elements): create or truncate
init_create(dt, initial_elements) ==
    LET s0 == [init_fields(dt, [fsize |-> 0, fhead |-> <<>>, fdata |-> <<>>])
                 EXCEPT !.file = TRUE]
        a == allocate_capacity(s0, initial_elements)
    IN init_mmap(Result(write_header(a.s), "none", <<>>, 0))

\* __init__(dtype, filename, "r+b") on the existing file f
init_open(dt, f) ==
    LET s0 == [init_fields(dt, f) EXCEPT !.file = TRUE]
        h == read_header(s0)
        data_size == s0.fsize - HEADER_SIZE
        min_elements ==
            (data_size + s0.element_size - 1) \div s0.element_size
    IN IF h.err # "none" THEN h
       ELSE IF h.ret = <<FALSE>>
       THEN Result(s0, "ValueError: File does not have a valid array header",
                   <<>>, 0)
       ELSE init_mmap(allocate_capacity(h.s, min_elements))

(***************************************************************************)
(* The state machine: one instance at a time over one backing file.        *)
(***************************************************************************)
\* threads that call the instance's methods
Threads == {1, 2}

\* no call in progress: the call's name and arguments, the index that
\* _validate_index returned, the argument of _resize, and where the call
\* goes on after _resize
NoCall == [name |-> "none", arg |-> <<>>, idx |-> 0, min |-> 0,
           after |-> "idle"]

\* the state a call leaves, and what is recorded of the call
Do(r, name, arg) ==
    /\ dtype' = r.s.dtype
    /\ element_size' = r.s.element_size
    /\ file' = r.s.file
    /\ mmap' = r.s.mmap
    /\ len' = r.s.len
    /\ capacity' = r.s.capacity
    /\ capacity_bytes' = r.s.capacity_bytes
    /\ fsize' = r.s.fsize
    /\ fhead' = r.s.fhead
    /\ fdata' = r.s.fdata
    /\ op' = [name |-> name, arg |-> arg]
    /\ err' = r.err
    /\ ret' = r.ret
    /\ remaps' = r.remaps
    /\ was_open' = file
    /\ UNCHANGED tvars

\* the call was not an append
Other == appends_only' = FALSE /\ appended' = <<>>

\* batches given to extend
Batches == UNION {[1..n -> Values] : n \in 0..MaxExtend}

\* indices: every index that is in range for some length up to MaxLen, and
\* the first one out of range on either side
Indices == (0 - MaxLen - 1)..MaxLen

\* indices given to __getitem__ and __setitem__ on an array of length n:
\* those in range, and the first one out of range on either side
IndicesAt(n) == (0 - n - 1)..n

\* Array(dtype, filename, "w+b", initial_elements)
Init ==
    \E dt \in DTypes, initial_elements \in Hints :
        LET r == init_create(dt, initial_elements) IN
        /\ dtype = r.s.dtype
        /\ element_size = r.s.element_size
        /\ file = r.s.file
        /\ mmap = r.s.mmap
        /\ len = r.s.len
        /\ capacity = r.s.capacity
        /\ capacity_bytes = r.s.capacity_bytes
        /\ fsize = r.s.fsize
        /\ fhead = r.s.fhead
        /\ fdata = r.s.fdata
        /\ constructed = TRUE
        /\ op = [name |-> "init", arg |-> <<initial_elements>>]
        /\ err = r.err
        /\ ret = r.ret
        /\ remaps = r.remaps
        /\ was_open = FALSE
        /\ appended = <<>>
        /\ appends_only = TRUE
        /\ lock = 0
        /\ pc = [t \in Threads |-> "idle"]
        /\ call = [t \in Threads |-> NoCall]
        /\ owner = TRUE
        /\ finalizer = TRUE
        /\ exited = FALSE

GetItem(index) ==
    /\ constructed
    /\ Do(getitem(Self, index), "getitem", <<index>>)
    /\ Other
    /\ UNCHANGED <<constructed, gvars>>

SetItem(index, value) ==
    /\ constructed
    /\ Do(setitem(Self, index, value), "setitem", <<index, value>>)
    /\ Other
    /\ UNCHANGED <<constructed, gvars>>

AppendCall(value) ==
    /\ constructed
    /\ len < MaxLen
    /\ Do(append(Self, value), "append", <<value>>)
    /\ appends_only' = (appends_only /\ err' = "none")
    /\ appended' = IF appends_only' THEN appended \o <<value>> ELSE <<>>
    /\ UNCHANGED <<constructed, gvars>>

Extend(values) ==
    /\ constructed
    /\ len + Len(values) <= MaxLen
    /\ Do(extend(Self, values), "extend", values)
    /\ Other
    /\ UNCHANGED <<constructed, gvars>>

IMul(value) ==
    /\ constructed
    /\ len * value <= MaxLen
    /\ Do(imul(Self, value), "imul", <<value>>)
    /\ Other
    /\ UNCHANGED <<constructed, gvars>>

Flush ==
    /\ constructed
    /\ Do(flush(Self), "flush", <<>>)
    /\ Other
    /\ UNCHANGED <<constructed, gvars>>

Close ==
    /\ constructed
    /\ Do(close(Self), "close", <<>>)
    /\ UNCHANGED <<constructed, appended, appends_only, gvars>>

\* Array(dt, filename, "r+b") on the file, while no instance holds it open;
\* the instance exists when the constructor returns, and when it raises the
\* half-built object is dropped and its handle closed with it (the finalizer
\* is registered by the constructor's last statement)
Reopen(dt) ==
    /\ ~file
    /\ LET r == init_open(dt, [fsize |-> fsize, fhead |-> fhead,
                               fdata |-> fdata])
       IN Do(IF r.err = "none" THEN r ELSE [r EXCEPT !.s.file = FALSE],
             "open", <<>>)
    /\ constructed' = (err' = "none")
    /\ owner' = constructed'
    /\ finalizer' = constructed'
    /\ UNCHANGED exited
    /\ appends_only' = (appends_only /\ dt = dtype)
    /\ appended' = IF appends_only' THEN appended ELSE <<>>

Next ==
    \/ \E index \in IndicesAt(len) : GetItem(index)
    \/ \E index \in IndicesAt(len), value \in Values : SetItem(index, value)
    \/ \E value \in Values : AppendCall(value)
    \/ \E values \in Batches : Extend(values)
    \/ \E value \in (0 - 1)..MaxRepeat : IMul(value)
    \/ Flush
    \/ Close
    \/ \E dt \in DTypes : Reopen(dt)

Spec == Init /\ [][Next]_vars

(***************************************************************************)
(* What the claims speak about.                                            *)
(***************************************************************************)
\* the instance is constructed and not closed
IsOpen == constructed /\ file

\* the elements of s, read with __getitem__, as a sequence
Elements(s) == [i \in 1..s.len |-> getitem(s, i - 1).ret]

\* the values vs as __getitem__ returns them
Returned(vs) == [i \in 1..Len(vs) |-> <<vs[i]>>]

\* the fields of the instance and the backing file
fields == <<dtype, element_size, file, mmap, len, capacity, capacity_bytes,
            fsize, fhead, fdata>>

\* C1 (as claimed): after create, appends only, close and reopening with the
\* same encoding, the open succeeds, the length is the number of appended
\* values and the element at every index i is the i-th appended value.
C1_RoundTrip ==
    (op.name = "open" /\ appends_only) =>
        /\ err = "none"
        /\ len = Len(appended)
        /\ Elements(Self) = Returned(appended)

\* C2: in every state of a constructed container, whatever calls were made
\* (failed ones and calls after close included), 0 <= length <= capacity.
C2_LengthWithinCapacity == constructed => (0 <= len /\ len <= capacity)

\* C2 witness: an append that had to grow the file left the array full.
C2_Witness ==
    /\ op.name = "append" /\ err = "none" /\ remaps = 1
    /\ len > 1 /\ len <= capacity

\* C3: the close of an open container leaves the file at exactly
\* 32 + length * element_size bytes, with the header's length field equal to
\* the container's length.
C3_CloseTruncatesToLength ==
    [][(constructed /\ file /\ op'.name = "close") =>
          /\ err' = "none"
          /\ ~file'
          /\ fsize' = HEADER_SIZE + len' * element_size'
          /\ Len(fhead') = HEADER_SIZE
          /\ hdr_length(fhead') = len'
          /\ len' = len]_vars

\* C3 witness: a container built with a capacity hint, holding fewer elements
\* than its capacity, was closed.
C3_Witness ==
    /\ op.name = "close" /\ was_open /\ ~file
    /\ len = MaxHint /\ capacity > len
    /\ fsize = HEADER_SIZE + len * element_size
    /\ hdr_length(fhead) = len

\* C4: close on a closed container raises nothing and changes neither the
\* file nor a field of the container.
C4_CloseIdempotent ==
    [][(constructed /\ ~file /\ op'.name = "close") =>
          (err' = "none" /\ UNCHANGED fields)]_vars

\* C4 witness: close was called on a closed container that holds elements.
C4_Witness ==
    op.name = "close" /\ ~was_open /\ ~file /\ err = "none" /\ len > 0

\* C6 (as claimed): on every open container of length L, one cleared by
\* repeat(0) included, repeat(n) with n >= 1 raises nothing, leaves the
\* length L * n, and each of the n blocks of L elements equals the original
\* sequence.
C6_RepeatLaw ==
    [][(IsOpen /\ op'.name = "imul" /\ op'.arg[1] >= 1) =>
          /\ err' = "none"
          /\ len' = len * op'.arg[1]
          /\ \A j \in 0..(op'.arg[1] - 1) :
                SubSeq(Elements(Self'), j * len + 1, (j + 1) * len)
                    = Elements(Self)]_vars

\* C7 (as claimed): repeat(0) on a non-empty open container sets the length
\* to 0 and truncates the backing file to the 32 bytes of the header.
C7_ClearLeavesHeader ==
    [][(IsOpen /\ len > 0 /\ op'.name = "imul" /\ op'.arg = <<0>>) =>
          (len' = 0 /\ fsize' = HEADER_SIZE)]_vars

\* C7 (amended): repeat(0) on a non-empty open container sets the length and
\* the capacity to 0, drops the mapping and truncates the backing file to 0
\* bytes, the header included.
C7_ClearTruncatesToZero ==
    [][(IsOpen /\ len > 0 /\ op'.name = "imul" /\ op'.arg = <<0>>) =>
          /\ err' = "none"
          /\ len' = 0 /\ capacity' = 0 /\ capacity_bytes' = 0
          /\ mmap' = 0
          /\ fsize' = 0 /\ fhead' = <<>> /\ fdata' = <<>>
          /\ file']_vars

\* C7 witness: repeat(0) has emptied the file of an open container.
C7_Witness ==
    /\ op.name = "imul" /\ op.arg = <<0>> /\ was_open /\ file
    /\ len = 0 /\ fsize = 0

\* C8: append(v) with an encodable v on an open container of length L raises
\* nothing, leaves the length L + 1 and v at index L, and leaves the elements
\* at the indices below L as they were, also when it grows and remaps.
C8_Append ==
    [][(IsOpen /\ op'.name = "append" /\ can_pack(op'.arg[1])) =>
          /\ err' = "none"
          /\ len' = len + 1
          /\ getitem(Self', len).ret = <<op'.arg[1]>>
          /\ SubSeq(Elements(Self'), 1, len) = Elements(Self)]_vars

\* C8 witness: an append that grew and remapped the file a second time.
C8_Witness ==
    /\ op.name = "append" /\ err = "none" /\ remaps = 1
    /\ len >= 3 /\ fsize >= 3 * CHUNK_SIZE_BYTES
    /\ Elements(Self) = Returned(appended)

RECURSIVE appends(_, _, _)
\* append called on each of values[k..] in order, from the state of result r
appends(r, values, k) ==
    IF k > Len(values) \/ r.err # "none" THEN r
    ELSE LET a == append(r.s, values[k])
         IN appends([a EXCEPT !.remaps = r.remaps + a.remaps], values, k + 1)

\* batches of encodable values
GoodBatches == UNION {[1..n -> GoodValues] : n \in 0..MaxExtend}

\* C9: on an open container, extend(values) with encodable values and append
\* of each value in order leave the same length, elements and capacity;
\* extend maps the file at most once, and extend of nothing changes nothing.
C9_ExtendAsAppends ==
    IsOpen =>
        \A values \in GoodBatches :
            LET e == extend(Self, values)
                a == appends(Result(Self, "none", <<>>, 0), values, 1)
            IN /\ e.err = "none" /\ a.err = "none"
               /\ e.s.len = a.s.len
               /\ e.s.len = len + Len(values)
               /\ Elements(e.s) = Elements(a.s)
               /\ e.s.capacity = a.s.capacity
               /\ e.remaps <= 1
               /\ (values = <<>> => e.s = Self)

\* C9 witness: an extend of two values took a container of element size
\* 3000 from length 1 to length 3 with one mapping; appends map twice there.
C9_Witness ==
    /\ op.name = "extend" /\ Len(op.arg) = 2 /\ err = "none"
    /\ remaps = 1 /\ was_open /\ len = 3 /\ dtype = DT_b2999x

\* C10: on an open container of length L, get(-k) returns what get(L - k)
\* returns for 1 <= k <= L; get(-k) and set(-k, v) raise the range error for
\* k > L, and so do get(i) and set(i, v) for i >= L.
C10_NegativeIndexing ==
    IsOpen =>
        /\ \A k \in 1..len :
              /\ getitem(Self, 0 - k).err = "none"
              /\ getitem(Self, 0 - k) = getitem(Self, len - k)
        /\ \A i \in Indices :
              (i >= len \/ i < 0 - len) =>
                  /\ getitem(Self, i).err = "IndexError: Index out of bounds"
                  /\ \A v \in Values :
                        setitem(Self, i, v).err
                            = "IndexError: Index out of bounds"

\* C10 witness: a read at a negative index returned the first element of a
\* container of at least two elements.
C10_Witness ==
    /\ op.name = "getitem" /\ err = "none" /\ was_open
    /\ len >= 2 /\ op.arg = <<0 - len>>
    /\ ret = getitem(Self, 0).ret

\* C11: set(i, v) with an index in range and an encodable v on an open
\* container raises nothing, leaves v at the normalized index, and leaves
\* every other element, the length, the capacity, the file's size and header,
\* the mapping and the handle as they were.
C11_SetItemFrame ==
    [][(IsOpen /\ op'.name = "setitem" /\ valid_index(Self, op'.arg[1])
            /\ can_pack(op'.arg[2])) =>
          LET i == norm_index(Self, op'.arg[1]) IN
          /\ err' = "none"
          /\ getitem(Self', i).ret = <<op'.arg[2]>>
          /\ \A j \in 0..(len - 1) :
                j # i => getitem(Self', j).ret = getitem(Self, j).ret
          /\ UNCHANGED <<dtype, element_size, file, mmap, len, capacity,
                         capacity_bytes, fsize, fhead>>]_vars

\* C11 witness: a write at a negative index changed the middle element of a
\* container of three elements that differ from the written value.
C11_Witness ==
    /\ op.name = "setitem" /\ op.arg = <<0 - 2, 1>> /\ err = "none"
    /\ was_open /\ len = 3
    /\ Elements(Self) = <<<<0 - 1>>, <<1>>, <<0 - 1>>>>

\* C13: on a closed container, get(i) and set(i, v) with i in
\* [-length, length) raise the "Array is not memory-mapped" RuntimeError,
\* whatever v is, and leave every field and the file as they were.
C13_ClosedAccessFails ==
    (constructed /\ ~file) =>
        \A i \in Indices :
            valid_index(Self, i) =>
                /\ getitem(Self, i)
                     = Result(Self, "RuntimeError: Array is not memory-mapped",
                              <<>>, 0)
                /\ \A v \in Values :
                      setitem(Self, i, v)
                        = Result(Self,
                                 "RuntimeError: Array is not memory-mapped",
                                 <<>>, 0)

\* C13 witness: a write at the last index of a closed container of two or
\* more elements raised the RuntimeError.
C13_Witness ==
    /\ op.name = "setitem" /\ ~was_open /\ constructed /\ ~file
    /\ len >= 2 /\ op.arg[1] = 0 - 1
    /\ err = "RuntimeError: Array is not memory-mapped"

\* the calls of C15 that must not lower the capacity
KeepsCapacity(o) ==
    \/ o.name \in {"append", "extend", "setitem", "flush", "close"}
    \/ (o.name = "imul" /\ o.arg[1] >= 1)

\* C15: across one append, extend, set, flush, close or repeat(n) with
\* n >= 1 on an instance, failed calls and calls after close included, the
\* capacity does not decrease; a call on the instance after which the
\* capacity is lower is repeat(0).
C15_CapacityMonotone ==
    [][(constructed /\ op'.name # "open") =>
          /\ (KeepsCapacity(op') => capacity' >= capacity)
          /\ (capacity' < capacity => (op'.name = "imul" /\ op'.arg = <<0>>))
      ]_vars

\* C15 witness: an append grew a container of element size 3000 from two
\* chunks (capacity 2) to three (capacity 4).
C15_Witness ==
    /\ op.name = "append" /\ err = "none" /\ remaps = 1 /\ was_open
    /\ dtype = DT_b2999x /\ len = 3 /\ capacity = 4

\* C16 (as claimed): while a container is open, between calls, the file's
\* size is 32 + capacity * element_size and the file's size less 32 is a
\* multiple of 4096.
C16_FileSizeFromCapacity ==
    IsOpen =>
        /\ fsize = HEADER_SIZE + capacity * element_size
        /\ (fsize - HEADER_SIZE) % CHUNK_SIZE_BYTES = 0

\* C16 (amended): while a container is open, between calls, the file's whole
\* size, header included, is a multiple of 4096; capacity is
\* capacity_bytes \div element_size; and the file's size is
\* 32 + capacity_bytes, so that
\* 32 + capacity * element_size <= size < 32 + (capacity + 1) * element_size,
\* except after repeat(0), when the file's size and the capacity are 0.
C16_FileSizeIsChunks ==
    IsOpen =>
        /\ fsize % CHUNK_SIZE_BYTES = 0
        /\ capacity = capacity_bytes \div element_size
        /\ IF fsize = 0
           THEN capacity = 0 /\ capacity_bytes = 0
           ELSE /\ fsize = HEADER_SIZE + capacity_bytes
                /\ HEADER_SIZE + capacity * element_size <= fsize
                /\ fsize < HEADER_SIZE + (capacity + 1) * element_size

\* C16 witness: an open container of element size 3000 whose file has grown
\* to three chunks: 32 + 4 * 3000 is less than the 12288 bytes of the file.
C16_Witness ==
    /\ IsOpen /\ dtype = DT_b2999x /\ capacity = 4 /\ len = 3
    /\ fsize = 3 * CHUNK_SIZE_BYTES
    /\ fsize > HEADER_SIZE + capacity * element_size

\* C17 (as claimed): when flush has returned on an open container, the
\* length field of the header stored in the file is the container's length.
C17_FlushStoresLength ==
    (IsOpen /\ op.name = "flush") =>
        (Len(fhead) = HEADER_SIZE /\ hdr_length(fhead) = len)

\* C17 (amended): flush raises nothing and changes neither a field of the
\* container nor a byte of the file as the process reads it, the header
\* included: the header's length field stays what the constructor or the
\* last close wrote.
C17_FlushKeepsHeader ==
    [][(constructed /\ op'.name = "flush") =>
          (err' = "none" /\ UNCHANGED fields)]_vars

\* C17 witness: flush has returned on an open container of two or more
\* elements whose header still stores the length 0.
C17_Witness ==
    /\ IsOpen /\ op.name = "flush" /\ err = "none" /\ len >= 2
    /\ Len(fhead) = HEADER_SIZE /\ hdr_length(fhead) = 0

\* what C18 says of an allocation for m elements of size es that found a file
\* of `before` bytes and left one of `after` bytes and the capacity cap
Allocated(m, es, before, after, cap) ==
    /\ after % CHUNK_SIZE_BYTES = 0
    /\ after >= m * es + HEADER_SIZE
    /\ after - CHUNK_SIZE_BYTES < m * es + HEADER_SIZE
    /\ cap = (after - HEADER_SIZE) \div es
    /\ cap >= m
    /\ after >= before

\* C18: the allocation of the constructor for the hint m, and the allocation
\* of every append, extend and repeat that grows an open container to hold m
\* elements, and the allocation of a reopening for the m elements that cover
\* the file's data region, leave the file at the smallest multiple of 4096
\* that holds the 32 header bytes and m elements, the capacity at
\* (file size - 32) \div element_size, which is at least m, and the file no
\* smaller than it was.
C18_Allocation ==
    [][/\ (op.name = "init") =>
             Allocated(op.arg[1], element_size, 0, fsize, capacity)
       /\ (IsOpen /\ remaps' = 1 /\ op'.name = "append") =>
             Allocated(len + 1, element_size, fsize, fsize', capacity')
       /\ (IsOpen /\ remaps' = 1 /\ op'.name = "extend") =>
             Allocated(len + Len(op'.arg), element_size, fsize, fsize',
                       capacity')
       /\ (IsOpen /\ remaps' = 1 /\ op'.name = "imul") =>
             Allocated(len * op'.arg[1], element_size, fsize, fsize',
                       capacity')
       /\ (op'.name = "open" /\ err' = "none") =>
             \E m \in 0..MaxLen :
                 /\ m * element_size' >= fsize - HEADER_SIZE
                 /\ (m - 1) * element_size' < fsize - HEADER_SIZE
                 /\ Allocated(m, element_size', fsize, fsize', capacity')
      ]_vars

\* C18 witness: repeat(3) grew a container of one element of size 3000 from
\* one chunk to the three chunks that hold three elements.
C18_Witness ==
    /\ op.name = "imul" /\ op.arg = <<3>> /\ remaps = 1 /\ was_open
    /\ dtype = DT_b2999x /\ len = 3 /\ capacity = 4
    /\ fsize = 3 * CHUNK_SIZE_BYTES

\* C19 (as claimed): on an open container of capacity 0 (cleared by
\* repeat(0) and not grown since), get(i) and set(i, v) raise the
\* "Array is not memory-mapped" RuntimeError for every integer i.
C19_ClearedAccessNotMapped ==
    (IsOpen /\ capacity = 0) =>
        \A i \in Indices :
            /\ getitem(Self, i).err
                 = "RuntimeError: Array is not memory-mapped"
            /\ \A v \in Values :
                  setitem(Self, i, v).err
                    = "RuntimeError: Array is not memory-mapped"

\* C19 (amended): on an open container of capacity 0 the length is 0 and no
\* mapping exists, and get(i) and set(i, v) raise the "Index out of bounds"
\* IndexError for every integer i and every v, and change nothing.
C19_ClearedAccessOutOfBounds ==
    (IsOpen /\ capacity = 0) =>
        /\ len = 0 /\ mmap = 0
        /\ \A i \in Indices :
              /\ getitem(Self, i)
                   = Result(Self, "IndexError: Index out of bounds", <<>>, 0)
              /\ \A v \in Values :
                    setitem(Self, i, v)
                      = Result(Self, "IndexError: Index out of bounds",
                               <<>>, 0)

\* C19 witness: a read at index 0 of an open container that repeat(0) had
\* cleared raised the IndexError.
C19_Witness ==
    /\ op.name = "getitem" /\ op.arg = <<0>> /\ was_open /\ file
    /\ capacity = 0 /\ fsize = 0 /\ mmap = 0
    /\ err = "IndexError: Index out of bounds"

(***************************************************************************)
(* Opening files that this program did not necessarily write.              *)
(***************************************************************************)
\* 32 header bytes with the given fields
craft_header(magic, version, dtype_len, dtype_bytes, es, length) ==
    magic \o PackLE(version, 2) \o <<dtype_len>> \o dtype_bytes
        \o PackLE(es, 4) \o PackLE(length, 8) \o Zeros(5)

\* dtype_len and the 8 dtype bytes: as _write_header stores each format; "b"
\* followed by a stray byte; "d"; a byte that is not ASCII
StoredDTypes ==
    {<<Len(dt), SubSeq(dt \o Zeros(DTYPE_SLOT), 1, DTYPE_SLOT)>> :
        dt \in DTypes}
    \cup {<<1, <<98, 120>> \o Zeros(6)>>,
          <<1, <<100>> \o Zeros(7)>>,
          <<1, <<255>> \o Zeros(7)>>}

CraftedHeaders ==
    {craft_header(m, v, d[1], d[2], es, n) :
        m \in {MAGIC, <<87, 82, 78, 71>>},
        v \in {HEADER_VERSION, 999},
        d \in StoredDTypes,
        es \in {calcsize(dt) : dt \in DTypes} \cup {8},
        n \in {0, 2, 7}}

\* files: a whole header followed by 0, 5 or 4064 zero bytes, and headers
\* cut short
Files ==
    {[fsize |-> HEADER_SIZE + extra, fhead |-> h, fdata |-> <<>>] :
        h \in CraftedHeaders, extra \in {0, 5, CHUNK_SIZE_BYTES - HEADER_SIZE}}
    \cup {[fsize |-> n, fhead |-> SubSeq(h, 1, n), fdata |-> <<>>] :
        h \in CraftedHeaders, n \in {0, 4, HEADER_SIZE - 1}}

\* a file exists and no instance does
InitOpen ==
    \E f \in Files :
        /\ dtype = <<>>
        /\ element_size = 0
        /\ file = FALSE
        /\ mmap = 0
        /\ len = 0
        /\ capacity = 0
        /\ capacity_bytes = 0
        /\ fsize = f.fsize
        /\ fhead = f.fhead
        /\ fdata = f.fdata
        /\ constructed = FALSE
        /\ op = [name |-> "none", arg |-> <<>>]
        /\ err = "none"
        /\ ret = <<>>
        /\ remaps = 0
        /\ was_open = FALSE
        /\ appended = <<>>
        /\ appends_only = FALSE
        /\ lock = 0
        /\ pc = [t \in Threads |-> "idle"]
        /\ call = [t \in Threads |-> NoCall]
        /\ owner = FALSE
        /\ finalizer = FALSE
        /\ exited = FALSE

NextOpen ==
    \/ \E dt \in DTypes : Reopen(dt)
    \/ Close

SpecOpen == InitOpen /\ [][NextOpen]_vars

\* C5 (as claimed): opening an existing file raises "no valid array header"
\* when the file has fewer than 32 bytes or another magic; otherwise the
\* unsupported-version error when the version is not 1; otherwise the
\* dtype-mismatch error when the stored encoding differs from the requested
\* one; otherwise the element-size error when the stored size differs; and
\* otherwise succeeds with the stored length.
C5_OpenValidates ==
    [][(op'.name = "open") =>
          IF Len(fhead) < HEADER_SIZE \/ hdr_magic(fhead) # MAGIC
          THEN err' = "ValueError: File does not have a valid array header"
          ELSE IF hdr_version(fhead) # HEADER_VERSION
          THEN err' = "ValueError: Unsupported header version"
          ELSE IF stored_dtype(fhead) # dtype'
          THEN err' = "ValueError: File dtype does not match"
          ELSE IF hdr_element_size(fhead) # calcsize(dtype')
          THEN err' = "ValueError: File element size does not match"
          ELSE err' = "none" /\ constructed'
               /\ len' = hdr_length(fhead)]_vars

\* C5 (amended): as claimed, except that after the version check a stored
\* encoding whose first dtype_len bytes are not all ASCII raises
\* UnicodeDecodeError (a ValueError) instead of the dtype-mismatch error.
C5_OpenValidatesAscii ==
    [][(op'.name = "open") =>
          IF Len(fhead) < HEADER_SIZE \/ hdr_magic(fhead) # MAGIC
          THEN err' = "ValueError: File does not have a valid array header"
               /\ ~constructed'
          ELSE IF hdr_version(fhead) # HEADER_VERSION
          THEN err' = "ValueError: Unsupported header version"
               /\ ~constructed'
          ELSE IF ~is_ascii(stored_dtype(fhead))
          THEN err' = "UnicodeDecodeError" /\ ~constructed'
          ELSE IF stored_dtype(fhead) # dtype'
          THEN err' = "ValueError: File dtype does not match"
               /\ ~constructed'
          ELSE IF hdr_element_size(fhead) # calcsize(dtype')
          THEN err' = "ValueError: File element size does not match"
               /\ ~constructed'
          ELSE err' = "none" /\ constructed'
               /\ len' = hdr_length(fhead)]_vars

\* C5 witness: a file whose header passes the four checks was opened and its
\* stored length, 7, adopted.
C5_Witness ==
    op.name = "open" /\ err = "none" /\ constructed /\ len = 7

(***************************************************************************)
(* The calls statement by statement, made by threads.  A call that takes   *)
(* self._lock holds it from its "with self._lock:" to its return or raise. *)
(* A step is one statement, or a run of statements that touch only what    *)
(* the thread alone can change.                                            *)
(***************************************************************************)
\* the fields of the instance and the file become those of s
Store(s) ==
    /\ dtype' = s.dtype
    /\ element_size' = s.element_size
    /\ file' = s.file
    /\ mmap' = s.mmap
    /\ len' = s.len
    /\ capacity' = s.capacity
    /\ capacity_bytes' = s.capacity_bytes
    /\ fsize' = s.fsize
    /\ fhead' = s.fhead
    /\ fdata' = s.fdata

\* what the steps of a call do not record
Unrecorded ==
    UNCHANGED <<constructed, remaps, was_open, appended, appends_only, gvars>>

\* the call of thread t returns r or raises e, and leaves the lock if it
\* holds it; of the call, its name is recorded
Finish(t, name, arg, e, r) ==
    /\ pc' = [pc EXCEPT ![t] = "idle"]
    /\ call' = [call EXCEPT ![t] = NoCall]
    /\ lock' = IF lock = t THEN 0 ELSE lock
    /\ op' = [name |-> name, arg |-> <<>>]
    /\ err' = e
    /\ ret' = r
    /\ Unrecorded

\* the call of thread t goes on at the statement `label`, with the locals c
Continue(t, label, c) ==
    /\ pc' = [pc EXCEPT ![t] = label]
    /\ call' = [call EXCEPT ![t] = c]
    /\ UNCHANGED <<lock, op, err, ret>>
    /\ Unrecorded

\* the call of thread t, started with its arguments
NewCall(name, arg) == [NoCall EXCEPT !.name = name, !.arg = arg]

\* the slot of index i lies in the mapping and past the end of the file: the
\* file was cut under the mapping.  An access of it is killed by SIGBUS when
\* its page lies past the file's last page, and otherwise touches memory
\* that no file byte backs.
Stale(i) == mmap > 0 /\ HEADER_SIZE + (i + 1) * element_size > fsize

\* the process has not been killed by a signal
Alive == err # "SIGBUS"

\* thread t is at the statement `label`
At(t, label) == Alive /\ pc[t] = label

\* a use of the mapping object after its close()
MmapClosed == "ValueError: mmap closed or invalid"

\* __getitem__(index): no lock, one step
TGetItem(t, index) ==
    /\ At(t, "idle") /\ constructed
    /\ LET i == norm_index(Self, index)
           r == getitem(Self, index)
       IN IF valid_index(Self, index) /\ mmap < 0
          THEN Finish(t, "getitem", <<index>>, MmapClosed, <<>>)
          ELSE IF valid_index(Self, index) /\ Stale(i)
          THEN \E e \in {"SIGBUS", "none"} :
                  Finish(t, "getitem", <<index>>, e,
                         IF e = "none" THEN <<0>> ELSE <<>>)
          ELSE Finish(t, "getitem", <<index>>, r.err, r.ret)
    /\ UNCHANGED fields

\* __setitem__(index, value) up to "with self._lock:": the index is
\* validated against self._len before the lock is asked for
TBeginSetItem(t, index, value) ==
    /\ At(t, "idle") /\ constructed
    /\ IF ~valid_index(Self, index)
       THEN Finish(t, "setitem", <<index, value>>,
                   "IndexError: Index out of bounds", <<>>)
       ELSE Continue(t, "lock",
                     [NewCall("setitem", <<index, value>>)
                        EXCEPT !.idx = norm_index(Self, index)])
    /\ UNCHANGED fields

\* append(value) up to "with self._lock:"
TBeginAppend(t, value) ==
    /\ At(t, "idle") /\ constructed
    /\ len < MaxLen
    /\ Continue(t, "lock", NewCall("append", <<value>>))
    /\ UNCHANGED fields

\* extend(values) up to "with self._lock:"; nothing to add returns at once
TBeginExtend(t, values) ==
    /\ At(t, "idle") /\ constructed
    /\ len + Len(values) <= MaxLen
    /\ IF Len(values) = 0
       THEN Finish(t, "extend", values, "none", <<>>)
       ELSE Continue(t, "lock", NewCall("extend", values))
    /\ UNCHANGED fields

\* __imul__(value) up to "with self._lock:"; a negative value returns
\* NotImplemented at once
TBeginIMul(t, value) ==
    /\ At(t, "idle") /\ constructed
    /\ len * value <= MaxLen
    /\ IF value < 0
       THEN Finish(t, "imul", <<value>>, "none", <<0>>)
       ELSE Continue(t, "lock", NewCall("imul", <<value>>))
    /\ UNCHANGED fields

\* close() is entered: it asks for no lock
TBeginClose(t) ==
    /\ At(t, "idle") /\ constructed
    /\ Continue(t, "cl_unmap", NewCall("close", <<>>))
    /\ UNCHANGED fields

\* flush(): no lock, one step
TFlush(t) ==
    /\ At(t, "idle") /\ constructed
    /\ Finish(t, "flush", <<>>, IF mmap < 0 THEN MmapClosed ELSE "none", <<>>)
    /\ UNCHANGED fields

\* what the call c adds to the length
Growth(c) ==
    IF c.name = "append" THEN 1
    ELSE IF c.name = "extend" THEN Len(c.arg)
    ELSE IF c.name = "imul" /\ c.arg[1] >= 1 THEN len * (c.arg[1] - 1)
    ELSE 0

\* the length the call c needs room for
Needed(c) == len + Growth(c)

\* "with self._lock:" is entered (no call that holds the lock leaves a closed
\* mapping object behind), and the call tests whether it has to grow:
\* append when the array is full, extend and __imul__ (value > 1) when the
\* new length is above the capacity
Acquire(t) ==
    LET c == call[t] IN
    /\ At(t, "lock") /\ lock = 0
    /\ Needed(c) <= MaxLen
    /\ lock' = t
    /\ pc' = [pc EXCEPT ![t] =
                 IF c.name = "setitem" THEN "set_write"
                 ELSE IF c.name = "imul" /\ c.arg[1] = 0 THEN "clr_unmap"
                 ELSE IF c.name = "imul" /\ c.arg[1] = 1 THEN "write"
                 ELSE IF c.name = "append" /\ len = capacity THEN "rs_unmap"
                 ELSE IF c.name # "append" /\ Needed(c) > capacity
                 THEN "rs_unmap"
                 ELSE "write"]
    /\ call' = [call EXCEPT ![t] = [c EXCEPT !.min = Needed(c),
                                             !.after = "write"]]
    /\ UNCHANGED <<fields, op, err, ret>>
    /\ Unrecorded

\* __setitem__ under the lock: the mapping is tested, the value packed and
\* written at the slot of the index validated before the lock
SetWrite(t) ==
    LET c == call[t]
        value == c.arg[2]
    IN
    /\ At(t, "set_write")
    /\ IF mmap = 0
       THEN Finish(t, c.name, c.arg,
                   "RuntimeError: Array is not memory-mapped", <<>>)
            /\ UNCHANGED fields
       ELSE IF ~can_pack(value)
       THEN Finish(t, c.name, c.arg, "TypeError: cannot be packed", <<>>)
            /\ UNCHANGED fields
       ELSE IF ~in_mmap(Self, c.idx)
       THEN Finish(t, c.name, c.arg, "IndexError: mmap slice assignment",
                   <<>>)
            /\ UNCHANGED fields
       ELSE IF Stale(c.idx)
       THEN /\ \E e \in {"SIGBUS", "none"} : Finish(t, c.name, c.arg, e, <<>>)
            /\ UNCHANGED fields
       ELSE /\ Finish(t, c.name, c.arg, "none", <<>>)
            /\ Store(mmap_write(Self, c.idx, pack_value(value)))

\* the writes of append, extend and __imul__ under the lock, after the
\* growth if there was one, and the new length
Write(t) ==
    LET c == call[t]
        r == IF c.name = "append" THEN append_write(Self, c.arg[1])
             ELSE IF c.name = "extend" THEN extend_write(Self, c.arg, 1, 0)
             ELSE IF c.arg[1] = 1 THEN Result(Self, "none", <<1>>, 0)
             ELSE [imul_copy(Self, len, c.arg[1], 1, 0) EXCEPT !.ret = <<1>>]
    IN
    /\ At(t, "write")
    /\ IF r.err = "none" /\ Growth(c) > 0 /\ Stale(Needed(c) - 1)
       THEN \E e \in {"SIGBUS", "none"} :
               /\ Finish(t, c.name, c.arg, e, <<>>)
               /\ IF e = "none"
                  THEN Store([Self EXCEPT !.len = Needed(c)])
                  ELSE UNCHANGED fields
       ELSE /\ Finish(t, c.name, c.arg, r.err,
                      IF r.err = "none" THEN r.ret ELSE <<>>)
            /\ Store(r.s)

\* _resize without the close of the old mapping
RsUnmap_keeps_mapping(t) ==
    /\ At(t, "rs_unmap")
    /\ Continue(t, "rs_alloc", call[t])
    /\ UNCHANGED fields

\* _resize: "if self._mmap: self._mmap.close()"
RsUnmap(t) ==
    /\ At(t, "rs_unmap")
    /\ Continue(t, "rs_alloc", call[t])
    /\ Store([Self EXCEPT !.mmap = IF mmap > 0 THEN 0 - 1 ELSE 0])

\* _resize: self._allocate_capacity(min_new_len)
RsAlloc(t) ==
    LET c == call[t]
        a == allocate_capacity(Self, c.min)
    IN
    /\ At(t, "rs_alloc")
    /\ Store(a.s)
    /\ IF a.err # "none"
       THEN Finish(t, c.name, c.arg, a.err, <<>>)
       ELSE Continue(t, "rs_map", c)

\* _resize: self._mmap = mmap.mmap(self._file.fileno(), 0), the whole file
RsMap(t) ==
    LET c == call[t] IN
    /\ At(t, "rs_map")
    /\ IF ~file
       THEN Finish(t, c.name, c.arg, "AttributeError", <<>>)
            /\ UNCHANGED fields
       ELSE /\ Continue(t, c.after, c)
            /\ Store([Self EXCEPT !.mmap = fsize])

\* __imul__, value 0: self._len = 0, and the mapping is closed and forgotten
ClrUnmap(t) ==
    /\ At(t, "clr_unmap")
    /\ Continue(t, "clr_trunc", call[t])
    /\ Store([Self EXCEPT !.len = 0, !.mmap = 0])

\* __imul__, value 0: the file is cut to nothing and the capacity reset
ClrTrunc(t) ==
    LET c == call[t]
        s1 == IF file THEN ftruncate(Self, 0) ELSE Self
    IN
    /\ At(t, "clr_trunc")
    /\ Store([s1 EXCEPT !.capacity = 0, !.capacity_bytes = 0])
    /\ Finish(t, c.name, c.arg, "none", <<1>>)

\* close: "if self._mmap:" flush, close and forget the mapping
ClUnmap(t) ==
    LET c == call[t] IN
    /\ At(t, "cl_unmap")
    /\ IF mmap < 0
       THEN Finish(t, c.name, c.arg, MmapClosed, <<>>) /\ UNCHANGED fields
       ELSE /\ Continue(t, "cl_header", c)
            /\ Store([Self EXCEPT !.mmap = 0])

\* close: "if self._file:" and self._write_header()
ClHeader(t) ==
    LET c == call[t] IN
    /\ At(t, "cl_header")
    /\ IF ~file
       THEN Finish(t, c.name, c.arg, "none", <<>>) /\ UNCHANGED fields
       ELSE /\ Continue(t, "cl_trunc", c)
            /\ Store(write_header(Self))

\* close: the file is cut to the data's size when it is larger, and the
\* handle closed and forgotten
ClTrunc(t) ==
    LET c == call[t]
        actual_total_size == HEADER_SIZE + len * element_size
        s1 == IF fsize > actual_total_size
              THEN ftruncate(Self, actual_total_size) ELSE Self
    IN
    /\ At(t, "cl_trunc")
    /\ IF ~file
       THEN Finish(t, c.name, c.arg, "AttributeError", <<>>)
            /\ UNCHANGED fields
       ELSE /\ Finish(t, c.name, c.arg, "none", <<>>)
            /\ Store([s1 EXCEPT !.file = FALSE])

\* values and batches given by the threads: the value 1, and batches of no
\* value and of MaxExtend values; the indices given by the threads are those
\* from 0 to the length
TValues == {1}
TBatches == {<<>>} \cup [1..MaxExtend -> TValues]

\* one step of thread t
TNext(t) ==
    \/ \E index \in 0..len : TGetItem(t, index)
    \/ \E index \in 0..len, value \in TValues :
          TBeginSetItem(t, index, value)
    \/ \E value \in TValues : TBeginAppend(t, value)
    \/ \E values \in TBatches : TBeginExtend(t, values)
    \/ \E value \in (0 - 1)..MaxRepeat : TBeginIMul(t, value)
    \/ TBeginClose(t)
    \/ TFlush(t)
    \/ Acquire(t)
    \/ SetWrite(t)
    \/ Write(t)
    \/ RsUnmap(t)
    \/ RsAlloc(t)
    \/ RsMap(t)
    \/ ClrUnmap(t)
    \/ ClrTrunc(t)
    \/ ClUnmap(t)
    \/ ClHeader(t)
    \/ ClTrunc(t)

\* threads call the instance as they like
NextThreads == \E t \in Threads : TNext(t)

\* a created container of element size 3000 (one element fits in its first
\* chunk, two in two chunks and four in three) or of element size 1 (its
\* first chunk holds 4064 elements)
InitThreads == Init /\ dtype \in {DT_b, DT_b2999x} /\ op.arg = <<0>>

SpecThreads == InitThreads /\ [][NextThreads]_vars

\* calls do not overlap: one thread makes them
NextSteps == TNext(1)

SpecSteps == InitThreads /\ [][NextSteps]_vars

\* thread t is inside the state-changing section of a mutating call: under
\* the lock in __setitem__, append, extend or __imul__, or in close past its
\* first statement
InSection(t) ==
    pc[t] \in {"set_write", "write", "rs_unmap", "rs_alloc", "rs_map",
               "clr_unmap", "clr_trunc", "cl_header", "cl_trunc"}

\* C12 (as claimed): in no interleaving are two threads inside the
\* state-changing sections of mutating calls (indexed write, append, extend,
\* repeat, clear, close) on the instance at the same time.
C12_Serialized ==
    \A t \in Threads, u \in Threads :
        (t # u) => ~(InSection(t) /\ InSection(u))

\* C20: when calls do not overlap, every statement that changes the file's
\* length (the truncate of a growth, of repeat(0) and of close, and the
\* header write that extends an emptied file) runs while no mapping is open;
\* a mapping that is open covers the whole file; and every statement that
\* writes an element, and every read that returns one, goes through a mapping
\* of the whole file as it then is.
C20_ResizeUnmapped ==
    [][/\ (fsize' # fsize) => (mmap <= 0)
       /\ (mmap > 0) => (mmap = fsize)
       /\ (mmap' > 0) => (mmap' = fsize')
       /\ (fdata' # fdata /\ fsize' = fsize) => (mmap > 0 /\ mmap = fsize)
       /\ (op'.name = "getitem" /\ err' = "none" /\ pc[1] = "idle") =>
             (mmap > 0 /\ mmap = fsize)
      ]_vars

\* C20 witness: an append is in _resize, the old mapping closed and the file
\* grown from one chunk to two, before the new mapping is made.
C20_Witness ==
    /\ pc[1] = "rs_map" /\ call[1].name = "append"
    /\ mmap = 0 - 1 /\ fsize = 2 * CHUNK_SIZE_BYTES /\ len = 1

(***************************************************************************)
(* References to the instance.  The constructor ends with                  *)
(* weakref.finalize(self, self.close): the finalizer is kept alive by the  *)
(* weakref module's registry until it has run, and it holds its callback,  *)
(* the bound method self.close, which holds self.  The callback runs when  *)
(* the instance is collected or, at the latest, when the interpreter       *)
(* exits.                                                                  *)
(***************************************************************************)
\* the instance is referenced: by its owner, or by the callback of its live
\* finalizer
Reachable == owner \/ finalizer

\* append by the owner
OwnerAppend(value) == owner /\ ~exited /\ AppendCall(value)

\* close by the owner; the finalizer stays registered
OwnerClose == owner /\ ~exited /\ Close

\* the owner drops every reference it holds
DropRefs ==
    /\ constructed /\ owner /\ ~exited
    /\ owner' = FALSE
    /\ UNCHANGED <<fields, constructed, op, err, ret, remaps, was_open,
                   appended, appends_only, tvars, finalizer, exited>>

\* the collector frees the instance when nothing references it; a finalizer
\* that is alive then runs its callback, close
Collect ==
    /\ constructed /\ ~Reachable
    /\ IF finalizer
       THEN Do(close(Self), "close", <<>>)
       ELSE UNCHANGED <<fields, op, err, ret, remaps, was_open, tvars>>
    /\ constructed' = FALSE
    /\ finalizer' = FALSE
    /\ UNCHANGED <<owner, exited, appended, appends_only>>

\* the interpreter exits: the exit handler of weakref.finalize runs the
\* callbacks of the finalizers that are alive, and the owner's references go
AtExit ==
    /\ constructed /\ ~exited
    /\ IF finalizer
       THEN Do(close(Self), "close", <<>>)
       ELSE UNCHANGED <<fields, op, err, ret, remaps, was_open, tvars>>
    /\ exited' = TRUE
    /\ finalizer' = FALSE
    /\ owner' = FALSE
    /\ UNCHANGED <<constructed, appended, appends_only>>

NextGC ==
    \/ \E value \in Values : OwnerAppend(value)
    \/ OwnerClose
    \/ DropRefs
    \/ Collect
    \/ AtExit

SpecGC == Init /\ [][NextGC]_vars

\* C14 (as claimed): when the owner has dropped every reference to a
\* container it did not close, and the interpreter has not exited, the
\* instance is garbage and its collection, which runs the close sequence, can
\* take place.
C14_DroppedIsFinalized ==
    (constructed /\ ~owner /\ file /\ ~exited) => ENABLED Collect

\* C21 (as claimed): in every interleaving, a __setitem__ that returns
\* without raising has written at an index below the length the container
\* has at the moment of the write.
C21_SetWithinLength ==
    [][\A t \in Threads :
          (pc[t] = "set_write" /\ pc'[t] = "idle" /\ err' = "none") =>
              call[t].idx < len]_vars

(***************************************************************************)
(* Iteration.  __iter__ is a generator function: iter(array) makes the     *)
(* generator and runs none of its statements; the first next() runs        *)
(* "current_len = self._len" and enters the loop, and every next() runs    *)
(* the loop up to its next "yield self[i]" or to its end.  The generator   *)
(* takes no lock.  Its frame is the call of thread 1; between its steps    *)
(* the same thread appends and extends.                                    *)
(***************************************************************************)
\* the generator's frame: its locals current_len and i (the next index of
\* range(current_len)), and the values it has yielded so far
Frame(current_len, i, yielded) ==
    [name |-> "__iter__", current_len |-> current_len, i |-> i,
     yielded |-> yielded]

\* the bound of the loop that re-reads self._len at every step
iter_bound_live(self, started, current_len) == self.len

\* the bound of the loop: self._len read by the first step, the local
\* current_len afterwards
iter_bound(self, started, current_len) ==
    IF started THEN current_len ELSE self.len

\* iter(array): a new generator, whatever became of the one before
IterNew ==
    /\ constructed
    /\ pc' = [pc EXCEPT ![1] = "iter_start"]
    /\ call' = [call EXCEPT ![1] = Frame(0, 0, <<>>)]
    /\ op' = [name |-> "iter", arg |-> <<>>]
    /\ err' = "none"
    /\ ret' = <<>>
    /\ UNCHANGED <<fields, lock>>
    /\ Unrecorded

\* next(generator): the loop up to its next yield, to the exception of
\* self[i], or to its end; an exhausted generator raises StopIteration again
IterNext ==
    /\ constructed
    /\ pc[1] \in {"iter_start", "iter", "iter_end"}
    /\ op' = [name |-> "next", arg |-> <<>>]
    /\ IF pc[1] = "iter_end"
       THEN /\ err' = "StopIteration"
            /\ ret' = <<>>
            /\ UNCHANGED <<pc, call>>
       ELSE LET c == call[1]
                current_len == iter_bound(Self, pc[1] = "iter", c.current_len)
                r == getitem(Self, c.i)
            IN IF c.i >= current_len
               THEN /\ pc' = [pc EXCEPT ![1] = "iter_end"]
                    /\ call' = [call EXCEPT
                                  ![1] = Frame(current_len, c.i, c.yielded)]
                    /\ err' = "StopIteration"
                    /\ ret' = <<>>
               ELSE IF r.err # "none"
               THEN /\ pc' = [pc EXCEPT ![1] = "iter_end"]
                    /\ call' = [call EXCEPT
                                  ![1] = Frame(current_len, c.i, c.yielded)]
                    /\ err' = r.err
                    /\ ret' = <<>>
               ELSE /\ pc' = [pc EXCEPT ![1] = "iter"]
                    /\ call' = [call EXCEPT
                                  ![1] = Frame(current_len, c.i + 1,
                                               c.yielded \o r.ret)]
                    /\ err' = "none"
                    /\ ret' = r.ret
    /\ UNCHANGED <<fields, lock>>
    /\ Unrecorded

NextIter ==
    \/ IterNew
    \/ IterNext
    \/ \E value \in Values : AppendCall(value)
    \/ \E values \in Batches : Extend(values)

SpecIter == Init /\ [][NextIter]_vars

\* a next() of a generator that is not exhausted
IterStep ==
    /\ pc[1] \in {"iter_start", "iter"}
    /\ pc'[1] \in {"iter", "iter_end"}
    /\ <<pc, call>>' # <<pc, call>>

\* C22: an iteration whose first step finds length L yields on its k-th
\* step (k = 0..L-1) the element then at index k, ends on the step after
\* the L-th yield, whatever was appended between the steps, and a new
\* iteration has yielded nothing, so that its first step is for index 0.
C22_IterationFixedAtStart ==
    [][/\ IterStep =>
            LET k == Len(call[1].yielded)
                L == IF pc[1] = "iter_start" THEN len
                     ELSE call[1].current_len
            IN /\ call'[1].current_len = L
               /\ IF k < L
                  THEN /\ pc'[1] = "iter"
                       /\ err' = "none"
                       /\ ret' = Elements(Self)[k + 1]
                       /\ call'[1].yielded = call[1].yielded \o ret'
                  ELSE /\ pc'[1] = "iter_end"
                       /\ err' = "StopIteration"
                       /\ call'[1].yielded = call[1].yielded
       /\ (op'.name = "iter" /\ pc'[1] = "iter_start") =>
            call'[1].yielded = <<>>]_vars

\* C22 witness: an iteration that started at length 2 has ended after two
\* yields on a container which had grown to length 3 before its last step.
C22_Witness ==
    /\ pc[1] = "iter_end" /\ op.name = "next" /\ err = "StopIteration"
    /\ call[1].current_len = 2 /\ Len(call[1].yielded) = 2 /\ len = 3

(***************************************************************************)
(* Calls that fail on a value.  extend is given batches in which a value   *)
(* that cannot be packed comes after up to MaxLen - 1 values that can, on  *)
(* an array that already holds elements; the batch is bounded by the       *)
(* length the call leaves.                                                 *)
(***************************************************************************)
\* n values that can be packed
GoodRun(n) == [i \in 1..n |-> IF i % 2 = 1 THEN 1 ELSE 0 - 1]

\* batches given to extend: values that can be packed, then none or one that
\* cannot, alone or followed by one that can
LongBatches ==
    {GoodRun(n) \o tail :
        n \in 0..(MaxLen - 1),
        tail \in {<<>>} \cup {<<b>> : b \in BadValues}
                        \cup {<<b, g>> : b \in BadValues, g \in GoodValues}}

ExtendAny(values) ==
    /\ constructed
    /\ extend(Self, values).s.len <= MaxLen
    /\ Do(extend(Self, values), "extend", values)
    /\ Other
    /\ UNCHANGED <<constructed, gvars>>

NextFail ==
    \/ \E index \in IndicesAt(len), value \in Values : SetItem(index, value)
    \/ \E value \in Values : AppendCall(value)
    \/ \E values \in LongBatches : ExtendAny(values)
    \/ \E value \in {0, 2} : IMul(value)
    \/ Close

SpecFail == Init /\ [][NextFail]_vars

\* the error of a value that struct.pack refuses
PackError == "TypeError: cannot be packed"

\* C23: a call of append, extend or __setitem__ that raises the TypeError of
\* a value that cannot be packed leaves the length and the element at every
\* index below the length as they were.
C23_FailedCallKeepsElements ==
    [][(op'.name \in {"append", "extend", "setitem"} /\ err' = PackError) =>
          (len' = len /\ Elements(Self') = Elements(Self))]_vars

\* C23 witness: on an open array of two elements, extend has failed on the
\* third value of its batch after growing the file and writing the first two.
C23_Witness ==
    /\ IsOpen /\ op.name = "extend" /\ err = PackError /\ remaps = 1
    /\ Len(op.arg) = 3 /\ can_pack(op.arg[1]) /\ can_pack(op.arg[2])
    /\ ~can_pack(op.arg[3])
    /\ len = 2 /\ Elements(Self) = <<<<1>>, <<-1>>>>

\* C24 (as claimed): a container opened on an existing file whose header
\* passed every check has 0 <= length <= capacity, whatever length the
\* header stores and whatever the size of the file.
C24_OpenedLengthWithinCapacity ==
    (constructed /\ op.name = "open" /\ err = "none") =>
        (0 <= len /\ len <= capacity)

====
